---- MODULE Spec2Model ----
(***************************************************************************)
(* Model of sriram794/agentic-era-hack.                                    *)
(*                                                                         *)
(*   src/app/agent.py          resolve_conflicts, the bounded retry loop,  *)
(*                             and collect_role_thoughts, the function it  *)
(*                             re-invokes                                  *)
(*   src/streamlit_ui/app.py   Event_Extractor: __init__,                  *)
(*                             extract_all_events, get_event_summary       *)
(*                                                                         *)
(* A Python text is a sequence of words; the marker "No conflicts" is the  *)
(* two adjacent words "No", "conflicts" and `in` is contiguous containment.*)
(* A value is [type, text]: type "str" for a Python str, "LlmResponse" for *)
(* the object LlmResponse(<text>) of google.adk wrapping that text.        *)
(* A JSON object is a function from its present keys to their values, so   *)
(* dict.get(k, default) is a test on DOMAIN.                                *)
(***************************************************************************)
EXTENDS Integers, Sequences, FiniteSets, TLC

VARIABLES
    \* ---- resolve_conflicts (src/app/agent.py:171-180)
    pc,               \* position in resolve_conflicts
    role_thoughts,    \* the parameter role_thoughts
    max_iterations,   \* the parameter max_iterations
    iteration,        \* the local iteration
    current_thoughts, \* the local current_thoughts
    result,           \* the value returned
    exit,             \* which return statement returned
    applied,          \* the arguments of the calls of collect_role_thoughts, in order
    evals,            \* the evaluations of the predicate of line 175, in order
    \* ---- Event_Extractor (src/streamlit_ui/app.py:12-94)
    ctor,             \* outcome of __init__
    args,             \* the arguments __init__ was called with
    data,             \* self.data
    extracted,        \* outcome of the last extract_all_events
    summary,          \* outcome of the last get_event_summary
    sources,          \* outcome of the last get_grounding_sources
    first_summary,    \* the first outcome of get_event_summary for the document
    held,             \* the lists of extract_all_events a caller holds, per caller
    dashboard         \* what a run of main has put on the page

retryVars == <<pc, role_thoughts, max_iterations, iteration, current_thoughts,
               result, exit, applied, evals>>
auxVars == <<sources, first_summary, held, dashboard>>
logVars == <<ctor, args, data, extracted, summary, sources, first_summary, held, dashboard>>
vars == <<pc, role_thoughts, max_iterations, iteration, current_thoughts,
          result, exit, applied, evals, ctor, args, data, extracted, summary,
          sources, first_summary, held, dashboard>>

----------------------------------------------------------------------------
(* Bounds *)

\* longest input text of resolve_conflicts, in words
MaxWords == 3
\* largest max_iterations tried
MaxIterBound == 3
\* most events in a log document
MaxEvents == 2
\* most elements callers add to the lists they were returned
MaxAppends == 1

\* max_iterations: int = 3
DefaultMaxIterations == 3

----------------------------------------------------------------------------
(* Texts *)

Words == {"No", "conflicts", "x"}

RECURSIVE SeqsUpTo(_, _)
SeqsUpTo(S, n) ==
    IF n = 0 THEN {<<>>}
    ELSE LET shorter == SeqsUpTo(S, n - 1)
         IN  shorter \cup {Append(s, w) : s \in {t \in shorter : Len(t) = n - 1}, w \in S}

InputTexts == SeqsUpTo(Words, MaxWords)

\* needle in haystack, for Python str: a contiguous run of the haystack's words
Contains(needle, haystack) ==
    \E i \in 0..(Len(haystack) - Len(needle)) :
        \A j \in 1..Len(needle) : haystack[i + j] = needle[j]

Marker == <<"No", "conflicts">>

Str(t) == [type |-> "str", text |-> t]

\* LlmResponse(<text>): the class is google.adk's, outside the source. The
\* source annotates every function that returns one as "-> str"; the model
\* takes the construction to succeed and to wrap the text, and `in` on the
\* object to look at that text. No text the code wraps holds the marker.
LlmResponse(t) == [type |-> "LlmResponse", text |-> t]

\* str(n) inside an f-string
Digits == <<"0", "1", "2", "3", "4", "5", "6", "7", "8", "9">>
ToStr(n) == Digits[n + 1]
FromStr(s) == CHOOSE n \in 0..9 : Digits[n + 1] = s

----------------------------------------------------------------------------
(* src/app/agent.py *)

\* The f-string of collect_role_thoughts has no placeholder: a constant text
\* (abridged to its heading and first entry), independent of role_prompts.
collect_role_thoughtsMutNoConflicts(role_prompts) ==
    LlmResponse(<<"Collected", "Role", "Thoughts:", "No", "conflicts">>)

collect_role_thoughts(role_prompts) ==
    LlmResponse(<<"Collected", "Role", "Thoughts:", "-", "Technical", "Expert:",
                  "Scalability,", "reliability,", "modern", "tech", "stack.">>)

\* conflicts_detected = "No conflicts" not in current_thoughts
ConflictsDetected(thoughts) == ~Contains(Marker, thoughts.text)

\* while iteration < max_iterations
LoopCondMutLe(i, m) == i <= m

LoopCondMutAtLeastOnce(i, m) == i < m \/ i = 0

LoopCond(i, m) == i < m

\* return f"Conflict Check: No conflicts after {iteration} iterations."
NoConflictsMessageMutPlusOne(i) ==
    Str(<<"Conflict", "Check:", "No", "conflicts", "after", ToStr(i + 1), "iterations.">>)

NoConflictsMessage(i) ==
    Str(<<"Conflict", "Check:", "No", "conflicts", "after", ToStr(i), "iterations.">>)

\* return LlmResponse(f"Conflict Check: Conflicts resolved after {iteration} iterations.")
ResolvedMessage(i) ==
    LlmResponse(<<"Conflict", "Check:", "Conflicts", "resolved", "after", ToStr(i),
                  "iterations.">>)

MaxIterationsInputs == {-1} \cup (0..MaxIterBound) \cup {DefaultMaxIterations}

NoValue == Str(<<>>)

InitRetry ==
    /\ pc = "idle"
    /\ role_thoughts = NoValue
    /\ max_iterations = 0
    /\ iteration = 0
    /\ current_thoughts = NoValue
    /\ result = NoValue
    /\ exit = "none"
    /\ applied = <<>>
    /\ evals = <<>>

\* lines 171-173: the call, iteration = 0, current_thoughts = role_thoughts
Call ==
    /\ pc = "idle"
    /\ \E t \in InputTexts, m \in MaxIterationsInputs :
          /\ role_thoughts' = Str(t)
          /\ max_iterations' = m
          /\ current_thoughts' = Str(t)
    /\ iteration' = 0
    /\ pc' = "while"
    /\ UNCHANGED <<result, exit, applied, evals>>
    /\ UNCHANGED logVars

\* line 174, condition true: enter the body
WhileEnter ==
    /\ pc = "while"
    /\ LoopCond(iteration, max_iterations)
    /\ pc' = "check"
    /\ UNCHANGED <<role_thoughts, max_iterations, iteration, current_thoughts,
                   result, exit, applied, evals>>
    /\ UNCHANGED logVars

\* line 174, condition false, and line 180: the return after the loop
WhileExit ==
    /\ pc = "while"
    /\ ~LoopCond(iteration, max_iterations)
    /\ result' = ResolvedMessage(iteration)
    /\ exit' = "after_loop"
    /\ pc' = "done"
    /\ UNCHANGED <<role_thoughts, max_iterations, iteration, current_thoughts,
                   applied, evals>>
    /\ UNCHANGED logVars

\* lines 175-177, no conflicts detected: the return inside the loop
CheckReturn ==
    /\ pc = "check"
    /\ ~ConflictsDetected(current_thoughts)
    /\ evals' = Append(evals, [on |-> current_thoughts, conflicts |-> FALSE])
    /\ result' = NoConflictsMessage(iteration)
    /\ exit' = "in_loop"
    /\ pc' = "done"
    /\ UNCHANGED <<role_thoughts, max_iterations, iteration, current_thoughts, applied>>
    /\ UNCHANGED logVars

\* lines 175-176, conflicts detected: go on to line 178
CheckContinue ==
    /\ pc = "check"
    /\ ConflictsDetected(current_thoughts)
    /\ evals' = Append(evals, [on |-> current_thoughts, conflicts |-> TRUE])
    /\ pc' = "collect"
    /\ UNCHANGED <<role_thoughts, max_iterations, iteration, current_thoughts,
                   result, exit, applied>>
    /\ UNCHANGED logVars

\* lines 178-179
CollectMutOriginalInput ==
    /\ pc = "collect"
    /\ applied' = Append(applied, role_thoughts)
    /\ current_thoughts' = collect_role_thoughts(role_thoughts)
    /\ iteration' = iteration + 1
    /\ pc' = "while"
    /\ UNCHANGED <<role_thoughts, max_iterations, result, exit, evals>>
    /\ UNCHANGED logVars

Collect ==
    /\ pc = "collect"
    /\ applied' = Append(applied, current_thoughts)
    /\ current_thoughts' = collect_role_thoughts(current_thoughts)
    /\ iteration' = iteration + 1
    /\ pc' = "while"
    /\ UNCHANGED <<role_thoughts, max_iterations, result, exit, evals>>
    /\ UNCHANGED logVars

RetryStep == WhileEnter \/ WhileExit \/ CheckReturn \/ CheckContinue \/ Collect

NextRetry ==
    \/ Call
    \/ WhileEnter
    \/ WhileExit
    \/ CheckReturn
    \/ CheckContinue
    \/ Collect

----------------------------------------------------------------------------
(* JSON documents *)

\* {} and [] alike: the function with no key
EmptyObject == <<>>

\* dict.get(k, default)
Get(d, k, default) == IF k \in DOMAIN d THEN d[k] ELSE default

\* Python's None, as event.get(k) returns it; scalars are kept as their JSON text
None == "None"

TextPart(t) == [text |-> t]
OtherPart == [functionCall |-> "lookup"]

WebChunk(d) == [web |-> [domain |-> d, title |-> "Example", uri |-> "https://example.com/a"]]
WebChunkNoDomain == [web |-> [title |-> "Untitled", uri |-> "https://example.com/b"]]
NonWebChunk == [retrievedContext |-> [uri |-> "gs://bucket/doc"]]

ContentChoices ==
    { [role |-> "user", parts |-> <<TextPart("hello")>>],
      [role |-> "model", parts |-> <<TextPart("hi there")>>],
      [parts |-> <<TextPart("hello"), OtherPart, TextPart("hi there")>>],
      [role |-> "model"] }

GroundingChoices ==
    { EmptyObject,
      [groundingChunks |-> <<WebChunk("example.com")>>,
       webSearchQueries |-> <<"query1">>],
      [groundingChunks |-> <<NonWebChunk, WebChunkNoDomain, WebChunk("docs.example.org"),
                             WebChunk("")>>,
       groundingSupports |-> <<[groundingChunkIndices |-> <<0>>,
                                segment |-> [startIndex |-> "0", endIndex |-> "5"]],
                               EmptyObject>>,
       webSearchQueries |-> <<"query1", "query2">>] }

BaseChoices ==
    { [id |-> "A", timestamp |-> "1700000000.5", author |-> "data_collector_agent",
       invocationId |-> "e-1"],
      [id |-> "B"] }

\* f extended by key k with value v
With(f, k, v) == [x \in DOMAIN f \cup {k} |-> IF x = k THEN v ELSE f[x]]

EventChoices ==
    LET withContent == BaseChoices \cup {With(b, "content", c) : b \in BaseChoices, c \in ContentChoices}
    IN  withContent \cup {With(e, "groundingMetadata", g) : e \in withContent, g \in GroundingChoices}

\* the value under "events": an array of events, or something else
JArray(items) == [json |-> "array", items |-> items, keys |-> <<>>]
JNull == [json |-> "null", items |-> <<>>, keys |-> <<>>]
JNumber == [json |-> "number", items |-> <<>>, keys |-> <<>>]
JObject(keys) == [json |-> "object", items |-> <<>>, keys |-> keys]

EventsValues ==
    {JArray(es) : es \in SeqsUpTo(EventChoices, MaxEvents)}
        \cup {JNull, JNumber, JObject(<<>>), JObject(<<"0">>)}

Docs ==
    {EmptyObject, [appName |-> "app"]}
        \cup {[events |-> v] : v \in EventsValues}

\* the document json.load reads from the one file there is
FileDoc == [events |-> JArray(<<[id |-> "F", author |-> "file_agent"]>>)]

Paths == {None, "", "log.json"}

\* what is at the path when __init__ opens it: nothing, text that is not
\* JSON, or a document (an empty one too)
FileMissing == [state |-> "missing", doc |-> EmptyObject]
FileMalformed == [state |-> "malformed", doc |-> EmptyObject]
FileWith(d) == [state |-> "json", doc |-> d]
Files == {FileMissing, FileMalformed, FileWith(FileDoc), FileWith(EmptyObject)}

\* no file is opened
Unread == [state |-> "unread", doc |-> EmptyObject]

\* an argument json_data: None, or a document
NoJson == [given |-> FALSE, value |-> EmptyObject]
Json(d) == [given |-> TRUE, value |-> d]

----------------------------------------------------------------------------
(* src/streamlit_ui/app.py: Event_Extractor *)

\* truth value of json_file_path and of json_data
PathTruthyMutNotNone(p) == p # None

PathTruthy(p) == p # None /\ p # ""
JsonTruthy(j) == j.given /\ DOMAIN j.value # {}

\* lines 19-20: open(json_file_path, 'r') and json.load(f)
LoadFile(file) ==
    CASE file.state = "missing" -> [raises |-> "FileNotFoundError", doc |-> EmptyObject]
      [] file.state = "malformed" -> [raises |-> "JSONDecodeError", doc |-> EmptyObject]
      [] OTHER -> [raises |-> "none", doc |-> file.doc]

\* json.JSONDecodeError is a subclass of ValueError, FileNotFoundError is not
IsValueError(raised) == raised \in {"ValueError", "JSONDecodeError"}

\* for event in <v>: what iterating v yields, or the error it raises
Iterate(v) ==
    CASE v.json = "array" -> [raises |-> "none", dicts |-> v.items, strs |-> <<>>]
      [] v.json = "object" -> [raises |-> "none", dicts |-> <<>>, strs |-> v.keys]
      [] OTHER -> [raises |-> "TypeError", dicts |-> <<>>, strs |-> <<>>]

\* lines 44-46
ContentParts(parts) ==
    LET withText == SelectSeq(parts, LAMBDA part : "text" \in DOMAIN part)
    IN  [i \in 1..Len(withText) |-> withText[i].text]

\* lines 53-60
GroundingChunksMutAll(chunks) ==
    [i \in 1..Len(chunks) |->
        LET web_info == Get(chunks[i], "web", EmptyObject)
        IN  [domain |-> Get(web_info, "domain", None),
             title |-> Get(web_info, "title", None),
             uri |-> Get(web_info, "uri", None)]]

GroundingChunks(chunks) ==
    LET withWeb == SelectSeq(chunks, LAMBDA chunk : "web" \in DOMAIN chunk)
    IN  [i \in 1..Len(withWeb) |->
            LET web_info == withWeb[i].web
            IN  [domain |-> Get(web_info, "domain", None),
                 title |-> Get(web_info, "title", None),
                 uri |-> Get(web_info, "uri", None)]]

\* lines 64-69
GroundingSupports(supports) ==
    [i \in 1..Len(supports) |->
        [grounding_chunk_indices |-> Get(supports[i], "groundingChunkIndices", <<>>),
         segment |-> Get(supports[i], "segment", EmptyObject)]]

\* lines 29-75: the body of the loop, for one event
EventInfo(event) ==
    LET content == Get(event, "content", EmptyObject)
        parts == Get(content, "parts", <<>>)
        grounding_metadata == Get(event, "groundingMetadata", EmptyObject)
        grounding_chunks == Get(grounding_metadata, "groundingChunks", <<>>)
        grounding_supports == Get(grounding_metadata, "groundingSupports", <<>>)
        web_search_queries == Get(grounding_metadata, "webSearchQueries", <<>>)
    IN  [id |-> Get(event, "id", None),
         timestamp |-> Get(event, "timestamp", None),
         author |-> Get(event, "author", None),
         invocation_id |-> Get(event, "invocationId", None),
         role |-> Get(content, "role", None),
         content_parts |-> ContentParts(parts),
         grounding_chunks |-> GroundingChunks(grounding_chunks),
         grounding_supports |-> GroundingSupports(grounding_supports),
         search_queries |-> web_search_queries]

\* self.data.get('events', [])
EventsOf(d) == Get(d, "events", JArray(<<>>))

\* extract_all_events: the list returned, or the error raised; a str has no .get
extract_all_eventsMutKeyError(d) ==
    LET it == Iterate(EventsOf(d))
    IN  IF it.raises # "none" THEN [raises |-> it.raises, events |-> <<>>]
        ELSE IF it.strs # <<>> THEN [raises |-> "AttributeError", events |-> <<>>]
        ELSE IF \E i \in 1..Len(it.dicts) : "groundingMetadata" \notin DOMAIN it.dicts[i]
             THEN [raises |-> "KeyError", events |-> <<>>]
        ELSE [raises |-> "none",
              events |-> [i \in 1..Len(it.dicts) |-> EventInfo(it.dicts[i])]]

extract_all_events(d) ==
    LET it == Iterate(EventsOf(d))
    IN  IF it.raises # "none" THEN [raises |-> it.raises, events |-> <<>>]
        ELSE IF it.strs # <<>> THEN [raises |-> "AttributeError", events |-> <<>>]
        ELSE [raises |-> "none",
              events |-> [i \in 1..Len(it.dicts) |-> EventInfo(it.dicts[i])]]

\* ''.join(content_parts)
RECURSIVE Join(_)
Join(texts) == IF texts = <<>> THEN "" ELSE Head(texts) \o Join(Tail(texts))

\* lines 83-92: one row of the summary
SummaryRow(event) ==
    [ID |-> event.id,
     Author |-> event.author,
     Role |-> event.role,
     Timestamp |-> event.timestamp,
     Content_Length |-> Len(Join(event.content_parts)),
     Grounding_Chunks_Count |-> Len(event.grounding_chunks),
     Grounding_Supports_Count |-> Len(event.grounding_supports),
     Search_Queries_Count |-> Len(event.search_queries)]

\* pd.DataFrame(list of dicts): the rows in order; the columns are the keys of
\* the dicts, so an empty list gives a frame with no column
DataFrame(rows) ==
    [columns |-> IF rows = <<>> THEN {} ELSE DOMAIN rows[1], rows |-> rows]

\* get_event_summary: the frame returned, or the error extract_all_events raised
get_event_summary(d) ==
    LET ex == extract_all_events(d)
    IN  IF ex.raises # "none" THEN [raises |-> ex.raises, frame |-> DataFrame(<<>>)]
        ELSE [raises |-> "none",
              frame |-> DataFrame([i \in 1..Len(ex.events) |-> SummaryRow(ex.events[i])])]

\* the order of str, on the domains there are: "" < "d..." < "e..."
StringOrder == <<"", "docs.example.org", "example.com">>
Rank(str) == CHOOSE i \in 1..Len(StringOrder) : StringOrder[i] = str
StrLess(a, b) == Rank(a) < Rank(b)

\* sorted(list(<set>)): the least element first
RECURSIVE Sorted(_)
Sorted(set) ==
    IF set = {} THEN <<>>
    ELSE LET least == CHOOSE x \in set : \A y \in set : ~StrLess(y, x)
         IN  <<least>> \o Sorted(set \ {least})

\* if chunk['domain']
DomainTruthyMutNotNone(domain) == domain # None

DomainTruthy(domain) == domain # None /\ domain # ""

\* get_grounding_sources: the list returned, or the error extract_all_events raised
get_grounding_sources(d) ==
    LET ex == extract_all_events(d)
        domains == UNION {{ex.events[i].grounding_chunks[j].domain :
                              j \in {k \in 1..Len(ex.events[i].grounding_chunks) :
                                        DomainTruthy(ex.events[i].grounding_chunks[k].domain)}} :
                          i \in 1..Len(ex.events)}
    IN  IF ex.raises # "none" THEN [raises |-> ex.raises, domains |-> <<>>]
        ELSE [raises |-> "none", domains |-> Sorted(domains)]

NotCalled == "not called"

\* the callers of extract_all_events that keep what it returned
Callers == {"a", "b"}
NotHeld == [held |-> FALSE, queries |-> <<>>]

\* the page before main has run
NoUpload == [kind |-> "none", doc |-> EmptyObject]
NoPage == [ran |-> FALSE, upload |-> NoUpload, success |-> FALSE, loaded |-> 0,
           sections |-> <<>>, error |-> FALSE, stopped |-> FALSE]

InitLog ==
    /\ ctor = "none"
    /\ args = [json_file_path |-> None, json_data |-> NoJson, file |-> Unread]
    /\ data = EmptyObject
    /\ extracted = [raises |-> NotCalled, events |-> <<>>]
    /\ summary = [raises |-> NotCalled, frame |-> DataFrame(<<>>)]
    /\ sources = [raises |-> NotCalled, domains |-> <<>>]
    /\ first_summary = [raises |-> NotCalled, frame |-> DataFrame(<<>>), calls |-> 0]
    /\ held = [c \in Callers |-> NotHeld]
    /\ dashboard = NoPage

\* the json_data tried: every document when no path is passed, a few otherwise
JsonArgs(p) ==
    IF p # None
    THEN {NoJson, Json(EmptyObject), Json([events |-> JArray(<<[id |-> "A"]>>)])}
    ELSE {NoJson} \cup {Json(d) : d \in Docs}

\* __init__, lines 18-20: the file is loaded
ConstructFromFile ==
    /\ ctor = "none"
    /\ \E p \in Paths : \E j \in JsonArgs(p) : \E file \in Files :
          /\ PathTruthy(p)
          /\ LoadFile(file).raises = "none"
          /\ args' = [json_file_path |-> p, json_data |-> j, file |-> file]
          /\ data' = LoadFile(file).doc
    /\ ctor' = "ok"
    /\ UNCHANGED <<extracted, summary>>
    /\ UNCHANGED auxVars
    /\ UNCHANGED retryVars

\* __init__, lines 18-20: open or json.load raises
ConstructFileFails ==
    /\ ctor = "none"
    /\ \E p \in Paths : \E j \in JsonArgs(p) : \E file \in Files :
          /\ PathTruthy(p)
          /\ LoadFile(file).raises # "none"
          /\ args' = [json_file_path |-> p, json_data |-> j, file |-> file]
          /\ ctor' = LoadFile(file).raises
    /\ UNCHANGED <<data, extracted, summary>>
    /\ UNCHANGED auxVars
    /\ UNCHANGED retryVars

\* __init__, lines 21-22: json_data is stored
ConstructFromData ==
    /\ ctor = "none"
    /\ \E p \in Paths : \E j \in JsonArgs(p) :
          /\ ~PathTruthy(p)
          /\ JsonTruthy(j)
          /\ args' = [json_file_path |-> p, json_data |-> j, file |-> Unread]
          /\ data' = j.value
    /\ ctor' = "ok"
    /\ UNCHANGED <<extracted, summary>>
    /\ UNCHANGED auxVars
    /\ UNCHANGED retryVars

\* __init__, lines 23-24: raise ValueError
ConstructFails ==
    /\ ctor = "none"
    /\ \E p \in Paths : \E j \in JsonArgs(p) :
          /\ ~PathTruthy(p)
          /\ ~JsonTruthy(j)
          /\ args' = [json_file_path |-> p, json_data |-> j, file |-> Unread]
    /\ ctor' = "ValueError"
    /\ UNCHANGED <<data, extracted, summary>>
    /\ UNCHANGED auxVars
    /\ UNCHANGED retryVars

\* a call of extractor.extract_all_events()
ExtractAllEvents ==
    /\ ctor = "ok"
    /\ extracted' = extract_all_events(data)
    /\ UNCHANGED <<ctor, args, data, summary>>
    /\ UNCHANGED auxVars
    /\ UNCHANGED retryVars

\* a call of extractor.get_event_summary(); first_summary keeps the outcome of
\* the first call for the document and counts the calls up to the second
GetEventSummaryMutAccumulate ==
    /\ ctor = "ok"
    /\ LET new == get_event_summary(data)
       IN  summary' = [raises |-> new.raises,
                       frame |-> DataFrame(summary.frame.rows \o new.frame.rows)]
    /\ first_summary' =
          IF first_summary.raises = NotCalled
          THEN [raises |-> summary'.raises, frame |-> summary'.frame, calls |-> 1]
          ELSE [first_summary EXCEPT !.calls = 2]
    /\ UNCHANGED <<ctor, args, data, extracted>>
    /\ UNCHANGED <<sources, held, dashboard>>
    /\ UNCHANGED retryVars

GetEventSummary ==
    /\ ctor = "ok"
    /\ summary' = get_event_summary(data)
    /\ first_summary' =
          IF first_summary.raises = NotCalled
          THEN [raises |-> summary'.raises, frame |-> summary'.frame, calls |-> 1]
          ELSE [first_summary EXCEPT !.calls = 2]
    /\ UNCHANGED <<ctor, args, data, extracted>>
    /\ UNCHANGED <<sources, held, dashboard>>
    /\ UNCHANGED retryVars

\* a call of extractor.get_grounding_sources()
GetGroundingSources ==
    /\ ctor = "ok"
    /\ sources' = get_grounding_sources(data)
    /\ UNCHANGED <<ctor, args, data, extracted, summary>>
    /\ UNCHANGED <<first_summary, held, dashboard>>
    /\ UNCHANGED retryVars

\* the document __init__ stores for the arguments it was called with
StoredDocument(a) ==
    IF PathTruthy(a.json_file_path) THEN LoadFile(a.file).doc ELSE a.json_data.value

\* __init__ once more, lines 18-22: another extractor for the same arguments
ConstructAgain ==
    /\ ctor = "ok"
    /\ data' = StoredDocument(args)
    /\ extracted' = [raises |-> NotCalled, events |-> <<>>]
    /\ summary' = [raises |-> NotCalled, frame |-> DataFrame(<<>>)]
    /\ UNCHANGED <<ctor, args>>
    /\ UNCHANGED auxVars
    /\ UNCHANGED retryVars

NextLog ==
    \/ ConstructFromFile
    \/ ConstructFileFails
    \/ ConstructFromData
    \/ ConstructFails
    \/ ExtractAllEvents
    \/ GetEventSummary

Init == InitRetry /\ InitLog

SpecRetry == Init /\ [][NextRetry]_vars

SpecLog == Init /\ [][NextLog]_vars

\* lines 72-73: event_info['search_queries'] is the list stored under
\* webSearchQueries when the event has one (the same object, not a copy), and
\* the new list [] of the default otherwise
SearchQueriesRef(event) ==
    LET grounding_metadata == Get(event, "groundingMetadata", EmptyObject)
    IN  [shared |-> "webSearchQueries" \in DOMAIN grounding_metadata, own |-> <<>>]

\* the dicts the loop of line 28 runs over
LoopEvents(d) == Iterate(EventsOf(d)).dicts

\* a caller calls extract_all_events and keeps the list it returns
CallerExtracts ==
    /\ ctor = "ok"
    /\ extracted' = extract_all_events(data)
    /\ extracted'.raises = "none"
    /\ \E c \in Callers :
          held' = [held EXCEPT ![c] =
                      [held |-> TRUE,
                       queries |-> [i \in 1..Len(LoopEvents(data)) |->
                                       SearchQueriesRef(LoopEvents(data)[i])]]]
    /\ UNCHANGED <<ctor, args, data, summary, sources, first_summary, dashboard>>
    /\ UNCHANGED retryVars

\* the elements callers have added so far
RECURSIVE CountAdded(_)
CountAdded(list) ==
    IF list = <<>> THEN 0
    ELSE (IF Head(list) = "added" THEN 1 ELSE 0) + CountAdded(Tail(list))

RECURSIVE SumOver(_, _)
SumOver(lists, n) ==
    IF n = 0 THEN 0 ELSE CountAdded(lists[n]) + SumOver(lists, n - 1)

StoredQueries(event) ==
    Get(Get(event, "groundingMetadata", EmptyObject), "webSearchQueries", <<>>)

Added ==
    LET stored == [i \in 1..Len(LoopEvents(data)) |-> StoredQueries(LoopEvents(data)[i])]
        own(c) == [i \in 1..Len(held[c].queries) |-> held[c].queries[i].own]
    IN  SumOver(stored, Len(stored)) + SumOver(own("a"), Len(own("a")))
            + SumOver(own("b"), Len(own("b")))

\* the caller's code: events[i]['search_queries'].append("added"), on a list
\* that is the stored one
CallerAppendsShared ==
    /\ ctor = "ok"
    /\ Added < MaxAppends
    /\ \E c \in Callers : \E i \in 1..Len(held[c].queries) :
          /\ held[c].held
          /\ held[c].queries[i].shared
          /\ data' = [data EXCEPT
                        !.events.items[i].groundingMetadata.webSearchQueries =
                            Append(@, "added")]
    /\ UNCHANGED <<ctor, args, extracted, summary>>
    /\ UNCHANGED auxVars
    /\ UNCHANGED retryVars

\* the same, on a list that extract_all_events allocated
CallerAppendsOwn ==
    /\ ctor = "ok"
    /\ Added < MaxAppends
    /\ \E c \in Callers : \E i \in 1..Len(held[c].queries) :
          /\ held[c].held
          /\ ~held[c].queries[i].shared
          /\ held' = [held EXCEPT ![c].queries[i].own = Append(@, "added")]
    /\ UNCHANGED <<ctor, args, data, extracted, summary>>
    /\ UNCHANGED <<sources, first_summary, dashboard>>
    /\ UNCHANGED retryVars

\* callers that keep and modify what extract_all_events returned
NextAlias ==
    \/ ConstructFromData
    \/ CallerExtracts
    \/ CallerAppendsShared
    \/ CallerAppendsOwn

SpecAlias == Init /\ [][NextAlias]_vars

\* the sources of a log and its summary
NextSources ==
    \/ ConstructFromData
    \/ GetGroundingSources
    \/ GetEventSummary

SpecSources == Init /\ [][NextSources]_vars

-----------------------------------------------------------------------------
(* src/streamlit_ui/app.py: main and the functions that render the page *)

\* events the page's functions stumble on although extraction accepts them
Authored == [id |-> "A", timestamp |-> "1700000000.5", author |-> "data_collector_agent"]
NoTimestamp == [id |-> "C", author |-> "fact_checker_agent"]
NoId == [timestamp |-> "1700000001.5", author |-> "scoring_agent"]
UntitledChunk == [web |-> [domain |-> "example.com", uri |-> "https://example.com/c"]]
NoTitle == With(Authored, "groundingMetadata", [groundingChunks |-> <<UntitledChunk>>])

PageEvents == {Authored, NoTimestamp, NoId, NoTitle}

\* what the uploaded file holds: no JSON, a top-level array, or an object
Uploads ==
    {[kind |-> k, doc |-> EmptyObject] : k \in {"invalid", "empty array", "array"}}
        \cup {[kind |-> "object", doc |-> d] : d \in Docs}
        \cup {[kind |-> "object", doc |-> [events |-> JArray(s)]] :
                 s \in SeqsUpTo(PageEvents, MaxEvents) \ {<<>>}}

\* a missing timestamp reaches pandas, plotly and datetime: which of the
\* calls on it raises is theirs to decide
TimestampOutcomes == {"workflow", "table", "none"}

\* st.<element>(...): a section of the page, and the events it covers
Render(page, name, n, whole) ==
    [page EXCEPT !.sections = Append(@, [name |-> name, events |-> n, whole |-> whole])]

\* except Exception as e: st.error(...); st.info(...)
ExceptHandlerMutSilent(page) == page

ExceptHandler(page) == [page EXCEPT !.error = TRUE]

\* an exception leaves the try block
Raise(page) == [ExceptHandler(page) EXCEPT !.stopped = TRUE]

\* one statement group of the try block: skipped after an exception; when it
\* raises, shown is what it had rendered before (<<>>: nothing, or <<n>>)
Stage(page, raises, name, n, shown) ==
    IF page.stopped THEN page
    ELSE IF raises
         THEN Raise(IF shown = <<>> THEN page ELSE Render(page, name, shown[1], FALSE))
         ELSE Render(page, name, n, TRUE)

\* display_agent_details, one event: .replace on the author, [:16] on the
\* id, [:50] on the title of each of the first five chunks
DetailRaises(event) ==
    \/ event.author = None
    \/ event.id = None
    \/ \E j \in 1..Len(event.grounding_chunks) :
          j <= 5 /\ event.grounding_chunks[j].title = None

PageSections == <<"metrics", "workflow", "content", "agents", "sources", "table", "raw">>

\* the first event display_agent_details raises on, 0 when there is none
FirstRaising(events) ==
    IF \E i \in 1..Len(events) : DetailRaises(events[i])
    THEN CHOOSE i \in 1..Len(events) :
            DetailRaises(events[i]) /\ \A k \in 1..(i - 1) : ~DetailRaises(events[k])
    ELSE 0

\* main, for an uploaded file: the page when the run ends
main(upload, missing) ==
    LET object == upload.kind = "object"
        load == upload.kind = "invalid"
        init == \/ upload.kind = "empty array"
                \/ object /\ ~JsonTruthy(Json(upload.doc))
        sm == IF object THEN get_event_summary(upload.doc)
              ELSE [raises |-> "AttributeError", frame |-> DataFrame(<<>>)]
        ex == extract_all_events(upload.doc)
        gs == get_grounding_sources(upload.doc)
        rows == sm.frame.rows
        n == Len(rows)
        noAuthor == \E i \in 1..n : rows[i].Author = None
        noTimestamp == \E i \in 1..n : rows[i].Timestamp = None
        bad == FirstRaising(ex.events)
        start == [ran |-> TRUE, upload |-> upload, success |-> FALSE, loaded |-> 0,
                  sections |-> <<>>, error |-> FALSE, stopped |-> FALSE]
        loaded == IF load \/ init \/ sm.raises # "none" THEN Raise(start)
                  ELSE [start EXCEPT !.success = TRUE, !.loaded = n]
        metrics == Stage(loaded, sm.frame.columns = {}, "metrics", n, <<n>>)
        workflow == Stage(metrics, noAuthor \/ (noTimestamp /\ missing = "workflow"),
                          "workflow", n, <<>>)
        content == Stage(workflow, noAuthor, "content", n, <<>>)
        agents == Stage(content, bad # 0, "agents", Len(ex.events), <<bad - 1>>)
        srcs == Stage(agents, gs.raises # "none", "sources", Len(ex.events), <<>>)
        table == Stage(srcs, noTimestamp /\ missing = "table", "table", n, <<>>)
    IN  Stage(table, ex.raises # "none", "raw", IF Len(ex.events) = 0 THEN 0 ELSE 1, <<>>)

\* a file is uploaded and the script runs
Main ==
    /\ ~dashboard.ran
    /\ \E upload \in Uploads, missing \in TimestampOutcomes :
          dashboard' = main(upload, missing)
    /\ UNCHANGED <<ctor, args, data, extracted, summary, sources, first_summary, held>>
    /\ UNCHANGED retryVars

\* the file is removed: uploaded_file is None and the page shows the hint only
ClearUpload ==
    /\ dashboard.ran
    /\ dashboard' = NoPage
    /\ UNCHANGED <<ctor, args, data, extracted, summary, sources, first_summary, held>>
    /\ UNCHANGED retryVars

NextMain ==
    \/ Main
    \/ ClearUpload

SpecMain == Init /\ [][NextMain]_vars

\* repeated summaries, on one extractor and on extractors constructed anew
NextRepeat ==
    \/ ConstructFromFile
    \/ ConstructFromData
    \/ GetEventSummary
    \/ ConstructAgain

SpecRepeat == Init /\ [][NextRepeat]_vars

Next == NextRetry \/ NextLog \/ NextRepeat \/ NextAlias \/ NextSources \/ NextMain

Spec == Init /\ [][Next]_vars

\* resolve_conflicts is sequential code: a started call keeps running
FairSpecRetry == SpecRetry /\ WF_vars(RetryStep)

----------------------------------------------------------------------------
(* Claims about resolve_conflicts *)

\* the two ways resolve_conflicts returns
Converged == pc = "done" /\ exit = "in_loop"
Exhausted == pc = "done" /\ exit = "after_loop"

\* the iteration count a returned message reports: its sixth word
Reported(res) == FromStr(res.text[6])

\* C3: for every input text and every max_iterations >= 0, a call of
\* resolve_conflicts ends, in Converged or in Exhausted, after at most
\* max_iterations calls of collect_role_thoughts, and the iteration count it
\* reports lies in 0..max_iterations.
C3_BoundedTermination ==
    /\ [](max_iterations >= 0 => Len(applied) <= max_iterations)
    /\ []((pc = "done" /\ max_iterations >= 0) =>
            /\ Converged \/ Exhausted
            /\ Reported(result) \in 0..max_iterations)
    /\ []((pc # "idle" /\ max_iterations >= 0) => <>(pc = "done"))

C3_Witness ==
    /\ Exhausted
    /\ max_iterations >= 2
    /\ Len(applied) = max_iterations
    /\ Reported(result) = max_iterations

\* C4: with max_iterations = 0 the call ends in Exhausted and
\* collect_role_thoughts is never called, whatever the input text, also when
\* the input already holds the marker.
C4_ZeroIterations ==
    (pc # "idle" /\ max_iterations = 0) =>
        /\ applied = <<>>
        /\ evals = <<>>
        /\ pc = "done" => Exhausted

C4_Witness ==
    /\ Exhausted
    /\ max_iterations = 0
    /\ Contains(Marker, role_thoughts.text)

\* each call of collect_role_thoughts after the first receives what the
\* call before it returned
ReceivesPrevious ==
    \A k \in 2..Len(applied) : applied[k] = collect_role_thoughts(applied[k - 1])

C15_PredicateUnresponsive ==
    /\ Converged => (Contains(Marker, role_thoughts.text) /\ applied = <<>>)
    /\ (pc = "done" /\ ~Contains(Marker, role_thoughts.text) /\ max_iterations >= 1) =>
          /\ Exhausted
          /\ Len(applied) = max_iterations
          /\ \A k \in 1..Len(evals) : evals[k].conflicts

C15_Witness ==
    /\ Exhausted
    /\ role_thoughts.text = <<"No", "x", "conflicts">>
    /\ max_iterations = DefaultMaxIterations
    /\ Len(applied) = DefaultMaxIterations

\* the predicate held the first time it was evaluated
FirstEvalSatisfied == Len(evals) >= 1 /\ ~evals[1].conflicts

C6_ExhaustedAnnotated ==
    (Exhausted /\ Len(evals) >= 1 /\ evals[Len(evals)].conflicts) =>
        /\ Contains(<<"not", "converged">>, result.text)
        /\ Contains(current_thoughts.text, result.text)
        /\ ~Contains(<<"Conflicts", "resolved">>, result.text)

----------------------------------------------------------------------------
(* Claims about Event_Extractor *)

HasEventsArray(d) == "events" \in DOMAIN d /\ d.events.json = "array"

\* the events of the stored log
LogEvents == IF HasEventsArray(data) THEN data.events.items ELSE <<>>

ExtractCalled == ctor = "ok" /\ extracted.raises # NotCalled
SummaryCalled == ctor = "ok" /\ summary.raises # NotCalled

\* C8: parsing a stored document with no "events" key, or whose "events" is
\* not a sequence, signals an error and produces no events and no summary
\* records: it never returns normally with an empty result.
C8_MalformedLogSignalsError ==
    (ctor = "ok" /\ ~HasEventsArray(data)) =>
        /\ ExtractCalled => (extracted.raises # "none" /\ extracted.events = <<>>)
        /\ SummaryCalled => (summary.raises # "none" /\ summary.frame.rows = <<>>)

LacksContent(ev) == "content" \notin DOMAIN ev
LacksMetadataField(ev, k) ==
    \/ "groundingMetadata" \notin DOMAIN ev
    \/ k \notin DOMAIN ev.groundingMetadata

\* C9: extract_all_events does not fail on a log whose events lack optional
\* fields, and yields every event, in order, with an empty collection for
\* each of groundingChunks, groundingSupports, webSearchQueries and content
\* that the event lacks.
C9_OptionalFieldsTolerated ==
    (ExtractCalled /\ HasEventsArray(data)) =>
        /\ extracted.raises = "none"
        /\ Len(extracted.events) = Len(LogEvents)
        /\ \A i \in 1..Len(LogEvents) :
              LET ev == LogEvents[i]
                  out == extracted.events[i]
              IN  /\ ("id" \in DOMAIN ev) => out.id = ev.id
                  /\ LacksContent(ev) => out.content_parts = <<>>
                  /\ LacksMetadataField(ev, "groundingChunks") => out.grounding_chunks = <<>>
                  /\ LacksMetadataField(ev, "groundingSupports") => out.grounding_supports = <<>>
                  /\ LacksMetadataField(ev, "webSearchQueries") => out.search_queries = <<>>

C9_Witness ==
    /\ ExtractCalled
    /\ extracted.raises = "none"
    /\ Len(LogEvents) = 2
    /\ LacksContent(LogEvents[1])
    /\ "groundingMetadata" \notin DOMAIN LogEvents[1]
    /\ "groundingMetadata" \in DOMAIN LogEvents[2]
    /\ DOMAIN LogEvents[2].groundingMetadata = {}
    /\ extracted.events[1].grounding_chunks = <<>>
    /\ extracted.events[2].search_queries = <<>>

\* what the log itself says of an event
RawParts(ev) == IF "content" \in DOMAIN ev /\ "parts" \in DOMAIN ev.content
                THEN ev.content.parts ELSE <<>>
RawChunks(ev) == IF LacksMetadataField(ev, "groundingChunks") THEN <<>>
                 ELSE ev.groundingMetadata.groundingChunks
RawQueries(ev) == IF LacksMetadataField(ev, "webSearchQueries") THEN <<>>
                  ELSE ev.groundingMetadata.webSearchQueries

RECURSIVE TextLength(_)
TextLength(parts) ==
    IF parts = <<>> THEN 0
    ELSE (IF "text" \in DOMAIN Head(parts) THEN Len(Head(parts).text) ELSE 0)
             + TextLength(Tail(parts))

WebChunkCount(chunks) == Cardinality({j \in 1..Len(chunks) : "web" \in DOMAIN chunks[j]})

\* one record per event of the log, in log order, with the content length
\* and the query count of the log
SummaryFollowsLog ==
    /\ Len(summary.frame.rows) = Len(LogEvents)
    /\ \A i \in 1..Len(LogEvents) :
          LET ev == LogEvents[i]
              row == summary.frame.rows[i]
          IN  /\ ("id" \in DOMAIN ev) => row.ID = ev.id
              /\ row.Content_Length = TextLength(RawParts(ev))
              /\ row.Search_Queries_Count = Len(RawQueries(ev))

\* C10 as stated: get_event_summary returns one record per event, in log
\* order; Content_Length is the total length of the event's text segments,
\* Grounding_Chunks_Count the number of its grounding chunks and
\* Search_Queries_Count the number of its search queries.
C10_SummaryCountsEveryChunk ==
    (SummaryCalled /\ summary.raises = "none") =>
        /\ SummaryFollowsLog
        /\ \A i \in 1..Len(LogEvents) :
              summary.frame.rows[i].Grounding_Chunks_Count = Len(RawChunks(LogEvents[i]))

\* C10 amended: as stated, but Grounding_Chunks_Count is the number of the
\* event's grounding chunks that have a "web" entry.
C10_SummaryCountsWebChunks ==
    (SummaryCalled /\ summary.raises = "none") =>
        /\ SummaryFollowsLog
        /\ \A i \in 1..Len(LogEvents) :
              summary.frame.rows[i].Grounding_Chunks_Count = WebChunkCount(RawChunks(LogEvents[i]))

\* the two-event log of the end-to-end scenario: "hello" with no grounding,
\* then "hi there" with one chunk and one query
C10_Witness ==
    /\ SummaryCalled
    /\ summary.raises = "none"
    /\ Len(LogEvents) = 2
    /\ RawParts(LogEvents[1]) = <<TextPart("hello")>>
    /\ "groundingMetadata" \notin DOMAIN LogEvents[1]
    /\ RawParts(LogEvents[2]) = <<TextPart("hi there")>>
    /\ RawChunks(LogEvents[2]) = <<WebChunk("example.com")>>
    /\ RawQueries(LogEvents[2]) = <<"query1">>
    /\ LET a == summary.frame.rows[1]
           b == summary.frame.rows[2]
       IN  /\ a.Content_Length = 5
           /\ a.Grounding_Chunks_Count = 0
           /\ a.Search_Queries_Count = 0
           /\ b.Content_Length = 8
           /\ b.Grounding_Chunks_Count = 1
           /\ b.Search_Queries_Count = 1

View(c) ==
    [i \in 1..Len(held[c].queries) |->
        IF held[c].queries[i].shared
        THEN StoredQueries(LoopEvents(data)[i])
        ELSE held[c].queries[i].own]

\* C12: whatever a caller does to a result it was returned, the stored log
\* stays as it was, and so does the result of every other call.
C12_ResultsAreFresh ==
    [][ctor = "ok" =>
          /\ data' = data
          /\ \A c \in Callers :
                (held[c].held /\ held'[c] = held[c]) => View(c)' = View(c)]_vars

SourcesCalled == ctor = "ok" /\ sources.raises # NotCalled

\* the chunks of the log that have a "web" entry, as (event, chunk) places
WebPlaces ==
    {<<i, j>> \in (1..Len(LogEvents)) \X (1..4) :
        /\ j <= Len(RawChunks(LogEvents[i]))
        /\ "web" \in DOMAIN RawChunks(LogEvents[i])[j]}

RawDomain(place) == RawChunks(LogEvents[place[1]])[place[2]].web

\* the domains the log gives: present and not empty, on a chunk with "web"
LogDomains ==
    {RawDomain(p).domain :
        p \in {q \in WebPlaces : "domain" \in DOMAIN RawDomain(q) /\ RawDomain(q).domain # ""}}

\* C17: get_grounding_sources returns a strictly ascending list holding
\* exactly the non-empty domains of the chunks with a "web" entry, over all
\* events; a chunk without "web", or with a missing or empty domain, adds
\* nothing, while a "web" chunk without a domain still counts in
\* Grounding_Chunks_Count.
C17_SourcesSortedDistinct ==
    (SourcesCalled /\ sources.raises = "none") =>
        /\ {sources.domains[k] : k \in 1..Len(sources.domains)} = LogDomains
        /\ \A k \in 1..(Len(sources.domains) - 1) :
              StrLess(sources.domains[k], sources.domains[k + 1])
        /\ (SummaryCalled /\ summary.raises = "none") =>
              \A i \in 1..Len(LogEvents) :
                  summary.frame.rows[i].Grounding_Chunks_Count
                      = Cardinality({p \in WebPlaces : p[1] = i})

C17_Witness ==
    /\ SourcesCalled
    /\ SummaryCalled
    /\ Len(LogEvents) = 2
    /\ RawChunks(LogEvents[1]) = <<WebChunk("example.com")>>
    /\ RawChunks(LogEvents[2]) = <<NonWebChunk, WebChunkNoDomain, WebChunk("docs.example.org"),
                                   WebChunk("")>>
    /\ sources.domains = <<"docs.example.org", "example.com">>
    /\ summary.frame.rows[2].Grounding_Chunks_Count = 3

\* the events of the uploaded log
UploadedEvents == LoopEvents(dashboard.upload.doc)

\* every section is on the page, whole, and those that go event by event
\* cover each event of the log
CompleteReport ==
    /\ dashboard.upload.kind = "object"
    /\ Len(UploadedEvents) >= 1
    /\ dashboard.loaded = Len(UploadedEvents)
    /\ Len(dashboard.sections) = Len(PageSections)
    /\ \A k \in 1..Len(dashboard.sections) :
          /\ dashboard.sections[k].name = PageSections[k]
          /\ dashboard.sections[k].whole
          /\ dashboard.sections[k].name # "raw" =>
                dashboard.sections[k].events = Len(UploadedEvents)

\* C13: a run of main ends with the complete report of all events or with
\* an error shown; a reported successful load is never followed by a
\* truncated or empty report without an error.
C13_CompleteOrError ==
    dashboard.ran =>
        /\ dashboard.error \/ CompleteReport
        /\ (dashboard.success /\ ~CompleteReport) => dashboard.error

\* a log with zero events: the load is reported as successful, then the
\* metrics fail and the error is shown
C13_Witness ==
    /\ dashboard.ran
    /\ dashboard.upload = [kind |-> "object", doc |-> [events |-> JArray(<<>>)]]
    /\ dashboard.success
    /\ dashboard.loaded = 0
    /\ dashboard.error

Constructed == ctor # "none"

\* no usable path: None or the empty string; no usable json_data: None or
\* an empty document
NoPath == args.json_file_path \in {None, ""}
NoData == ~args.json_data.given \/ DOMAIN args.json_data.value = {}

\* C16 as stated: the construction fails with a ValueError, leaving no
\* stored data, exactly when no path is given and json_data is absent or
\* empty; with a path and json_data both given the content of the file is
\* stored and json_data is ignored.
C16_ValueErrorIffNoInput ==
    Constructed =>
        /\ IsValueError(ctor) <=> (NoPath /\ NoData)
        /\ IsValueError(ctor) => data = EmptyObject
        /\ (~NoPath /\ args.json_data.given) =>
              (ctor = "ok" /\ args.file.state = "json" /\ data = args.file.doc)

\* C16, amended: __init__ raises its own ValueError exactly when the path
\* is None or empty and json_data is absent or empty. With a non-empty path
\* the file is read and json_data is ignored: the document of the file is
\* stored, an empty one too; a file that is missing raises
\* FileNotFoundError and one that holds no JSON raises JSONDecodeError,
\* itself a ValueError. Without a path a non-empty json_data is stored. A
\* failed construction leaves no extractor and no stored data.
C16_ConstructorOutcomes ==
    Constructed =>
        /\ ctor = "ValueError" <=> (NoPath /\ NoData)
        /\ ~NoPath =>
              /\ args.file.state = "json" => (ctor = "ok" /\ data = args.file.doc)
              /\ args.file.state = "missing" => ctor = "FileNotFoundError"
              /\ args.file.state = "malformed" => ctor = "JSONDecodeError"
        /\ (NoPath /\ ~NoData) => (ctor = "ok" /\ data = args.json_data.value)
        /\ IsValueError(ctor) <=> (ctor = "ValueError" \/ ctor = "JSONDecodeError")
        /\ ctor # "ok" =>
              /\ data = EmptyObject
              /\ extracted.raises = NotCalled
              /\ summary.raises = NotCalled

\* a path and a json_data both given: the document of the file is stored
C16_Witness ==
    /\ ctor = "ok"
    /\ args.json_file_path = "log.json"
    /\ ~NoData
    /\ data = FileDoc
    /\ data # args.json_data.value

====
